---- MODULE Spec2Model ----
(***************************************************************************)
(* Model of client/commands/start.py: Start._run, the double-lock protocol *)
(* by which concurrent `pyre start` processes start at most one server.    *)
(*                                                                         *)
(* Every process of Procs executes Start._run once.  The processes share   *)
(* one filesystem; a lock file is identified by the directory its path is  *)
(* resolved against and by its path below that directory.                  *)
(***************************************************************************)
EXTENDS Integers, FiniteSets, Sequences, TLC

\* Number of processes that run `pyre start` concurrently.
NumProcs == 2

\* Bound on the number of passes through the `except OSError` handler of the
\* retry loop, counted over all processes.
MaxRetries == 2

Procs == 1 .. NumProcs

\* self._source_directory: the project all processes want a server for.
SourceDirectory == "/project"

\* Working directories of the invoking processes.
WorkingDirs == {"/project"}

VARIABLES
    cwd,            \* cwd[p]: working directory of process p
    pc,             \* pc[p]: position of process p inside _run
    blocking,       \* blocking[p]: the local variable `blocking`
    lockHolder,     \* lockHolder[path]: who holds the advisory lock on path
    servers,        \* server processes that are alive
    ret,            \* ret[p]: how _run ended: "SUCCESS", "FAILURE", "Raised"
    calls,          \* calls[p]: number of _call_client invocations by p
    infos,          \* infos[p]: number of LOG.info lines written by p
    warnings,       \* warnings[p]: number of LOG.warning lines written by p
    startErrs,      \* startErrs[p]: error kinds p got from the client lock
    probeResult,    \* probeResult[p]: result of p's latest server-lock probe
    launchResult,   \* launchResult[p]: result of p's latest _call_client
    heldThroughout, \* heldThroughout[p]: a server held the server lock ever
                    \* since p entered _run
    args,           \* the arguments and the configuration of `pyre start`
    flags           \* flags[p]: the local variable `flags` of process p

vars == <<cwd, pc, blocking, lockHolder, servers, ret, calls, infos, warnings,
          startErrs, probeResult, launchResult, heldThroughout, args, flags>>

----------------------------------------------------------------------------
(* Lock files and their holders *)

NoHolder == <<"none", 0>>
Client(p) == <<"client", p>>
Server(s) == <<"server", s>>

\* A server that was started before any of the processes of Procs.
OldServer == NumProcs + 1

\* filesystem.acquire_lock(".pyre/client.lock", blocking): a path relative
\* to the working directory of the calling process.
ClientLockPath(p) == <<cwd[p], ".pyre/client.lock">>

\* os.path.join(self._source_directory, ".pyre", "server", "server.lock")
ServerLockPath == <<SourceDirectory, ".pyre/server/server.lock">>

LockPaths == {<<d, ".pyre/client.lock">> : d \in WorkingDirs} \cup {ServerLockPath}

\* filesystem.acquire_lock(path, blocking): the results the call can have in
\* the current state.  A free lock is acquired; a held lock makes a
\* non-blocking call fail with ResourceBusy and suspends a blocking call (no
\* result); any call can fail with ResourceUnavailable.  Both failures are
\* OSError.
AcquireResults(path, block) ==
    (IF lockHolder[path] = NoHolder THEN {"Acquired"}
     ELSE IF block THEN {} ELSE {"ResourceBusy"})
    \cup {"ResourceUnavailable"}

\* Results of self._call_client(...).check(): the server was started, the
\* client reported a failure (check() raises a ClientException), or spawning
\* the client raised an OSError.
LauncherResults == {"Ok", "Failure", "OSError"}

\* A server is alive and holds the server lock.
ServerHoldsLock == lockHolder[ServerLockPath][1] = "server"

\* The OSErrors raised so far inside the outer `try`, over all processes:
\* those already handled (one LOG.info each) and those being handled.
RECURSIVE InfosUpTo(_)
InfosUpTo(n) == IF n = 0 THEN 0 ELSE infos[n] + InfosUpTo(n - 1)
RetriesUsed == InfosUpTo(NumProcs) + Cardinality({p \in Procs : pc[p] = "except"})

----------------------------------------------------------------------------
(* The flags of the request *)

\* configuration.number_of_workers, get_typeshed(), get_version_hash()
NumberOfWorkers == 4
Typeshed == "/typeshed"
VersionHash == "abc123"

\* self._flags(): the flags every command passes, before those of `start`.
CommandFlags == <<"-command-flags">>

\* Directories _get_directories_to_analyze() can return, and entries of the
\* configured search path.
Directories == {SourceDirectory, "/project/a", "/other"}
SearchPaths == {<<>>, <<"x">>, <<"x", "y">>, <<"y", "x">>}

\* The inputs of the flags: self._get_directories_to_analyze(),
\* self._no_watchman, self._terminal, configuration.get_search_path().
ArgsSet ==
    [directories : SUBSET Directories, no_watchman : BOOLEAN,
     terminal : BOOLEAN, search_path : SearchPaths]

\* `pyre start` without options, for a project analysed as a whole.
DefaultArgs ==
    [directories |-> {SourceDirectory}, no_watchman |-> FALSE,
     terminal |-> FALSE, search_path |-> <<>>]

\* list(filter_directories): the elements of a set in the order in which the
\* set iterates.  The order of a set of str is not fixed: it follows the
\* hashes of the elements, which differ from process to process.
Orderings(D) ==
    {o \in [1 .. Cardinality(D) -> D] :
        \A i, j \in 1 .. Cardinality(D) : i # j => o[i] # o[j]}

\* ",".join(seq)
RECURSIVE Join(_)
Join(seq) ==
    IF seq = <<>> THEN ""
    ELSE IF Len(seq) = 1 THEN seq[1]
    ELSE seq[1] \o "," \o Join(Tail(seq))

\* Mutant of StartFlags: the test of self._no_watchman is inverted.
StartFlagsWatchmanInverted(a, order) ==
    CommandFlags
    \o (IF Cardinality(a.directories) > 1 /\ {SourceDirectory} \subseteq a.directories
        THEN <<"-filter-directories", Join(order)>> ELSE <<>>)
    \o (IF a.no_watchman THEN <<"-use-watchman">> ELSE <<>>)
    \o (IF a.terminal THEN <<"-terminal">> ELSE <<>>)
    \o <<"-workers", ToString(NumberOfWorkers), "-typeshed", Typeshed,
         "-expected-binary-version", VersionHash>>
    \o (IF a.search_path # <<>>
        THEN <<"-search-path", Join(a.search_path)>> ELSE <<>>)

\* The value of `flags` at the launcher call, for the inputs a and the
\* iteration order `order` of the set of directories.
StartFlags(a, order) ==
    CommandFlags
    \o (IF Cardinality(a.directories) > 1 /\ {SourceDirectory} \subseteq a.directories
        THEN <<"-filter-directories", Join(order)>> ELSE <<>>)
    \o (IF ~a.no_watchman THEN <<"-use-watchman">> ELSE <<>>)
    \o (IF a.terminal THEN <<"-terminal">> ELSE <<>>)
    \o <<"-workers", ToString(NumberOfWorkers), "-typeshed", Typeshed,
         "-expected-binary-version", VersionHash>>
    \o (IF a.search_path # <<>>
        THEN <<"-search-path", Join(a.search_path)>> ELSE <<>>)

\* The values `flags` can have for the inputs a.
PossibleFlags(a) == {StartFlags(a, o) : o \in Orderings(a.directories)}

----------------------------------------------------------------------------
Init ==
    /\ cwd \in [Procs -> WorkingDirs]
    /\ pc = [p \in Procs |-> "idle"]
    /\ blocking = [p \in Procs |-> FALSE]
    /\ \E old \in BOOLEAN :
          /\ servers = IF old THEN {OldServer} ELSE {}
          /\ lockHolder = [l \in LockPaths |->
                IF old /\ l = ServerLockPath THEN Server(OldServer) ELSE NoHolder]
    /\ ret = [p \in Procs |-> "none"]
    /\ calls = [p \in Procs |-> 0]
    /\ infos = [p \in Procs |-> 0]
    /\ warnings = [p \in Procs |-> 0]
    /\ startErrs = [p \in Procs |-> {}]
    /\ probeResult = [p \in Procs |-> "none"]
    /\ launchResult = [p \in Procs |-> "none"]
    /\ heldThroughout = [p \in Procs |-> FALSE]
    /\ args = DefaultArgs
    /\ flags = [p \in Procs |-> <<>>]

----------------------------------------------------------------------------
(* Start._run *)

\* Mutant of ExitClientLockScope: the client lock is kept when the scope ends.
ExitClientLockScopeLeak(p) == lockHolder

\* Leaving the scope of `with filesystem.acquire_lock(".pyre/client.lock", ...)`
\* by return or by exception releases the client lock.
ExitClientLockScope(p) == [lockHolder EXCEPT ![ClientLockPath(p)] = NoHolder]

\* Leaving the scope of the inner `with`: the server lock is released.
ExitServerLockScope(p) == [lockHolder EXCEPT ![ServerLockPath] = NoHolder]

\* The process enters _run.
Run(p) ==
    /\ pc[p] = "idle"
    /\ pc' = [pc EXCEPT ![p] = "top"]
    /\ heldThroughout' = [heldThroughout EXCEPT ![p] = ServerHoldsLock]
    /\ UNCHANGED <<args, flags, cwd, blocking, lockHolder, servers, ret, calls, infos,
                   warnings, startErrs, probeResult, launchResult>>

\* `while True:` / `blocking = False`
LoopTop(p) ==
    /\ pc[p] = "top"
    /\ blocking' = [blocking EXCEPT ![p] = FALSE]
    /\ pc' = [pc EXCEPT ![p] = "acquire"]
    /\ UNCHANGED <<args, flags, cwd, lockHolder, servers, ret, calls, infos, warnings,
                   startErrs, probeResult, launchResult, heldThroughout>>

\* Mutant of AcquireClientLock: a failed acquisition is ignored and the body
\* of the `with` runs without the client lock.
AcquireClientLockIgnoringError(p) ==
    /\ pc[p] = "acquire"
    /\ \E r \in AcquireResults(ClientLockPath(p), blocking[p]) :
          IF r = "Acquired"
          THEN /\ lockHolder' = [lockHolder EXCEPT ![ClientLockPath(p)] = Client(p)]
               /\ pc' = [pc EXCEPT ![p] = "probe"]
               /\ UNCHANGED startErrs
          ELSE /\ startErrs' = [startErrs EXCEPT ![p] = @ \cup {r}]
               /\ pc' = [pc EXCEPT ![p] = "probe"]
               /\ UNCHANGED lockHolder
    /\ UNCHANGED <<args, flags, cwd, blocking, servers, ret, calls, infos, warnings,
                   probeResult, launchResult, heldThroughout>>

\* Mutant of AcquireClientLock: the server lock is not probed.
AcquireClientLockSkipProbe(p) ==
    /\ pc[p] = "acquire"
    /\ \E r \in AcquireResults(ClientLockPath(p), blocking[p]) :
          IF r = "Acquired"
          THEN /\ lockHolder' = [lockHolder EXCEPT ![ClientLockPath(p)] = Client(p)]
               /\ pc' = [pc EXCEPT ![p] = "flags"]
               /\ UNCHANGED startErrs
          ELSE /\ RetriesUsed < MaxRetries
               /\ startErrs' = [startErrs EXCEPT ![p] = @ \cup {r}]
               /\ pc' = [pc EXCEPT ![p] = "except"]
               /\ UNCHANGED lockHolder
    /\ UNCHANGED <<args, flags, cwd, blocking, servers, ret, calls, infos, warnings,
                   probeResult, launchResult, heldThroughout>>

\* `with filesystem.acquire_lock(".pyre/client.lock", blocking):` inside the
\* outer `try`.  An OSError of either kind goes to the outer handler.
AcquireClientLock(p) ==
    /\ pc[p] = "acquire"
    /\ \E r \in AcquireResults(ClientLockPath(p), blocking[p]) :
          IF r = "Acquired"
          THEN /\ lockHolder' = [lockHolder EXCEPT ![ClientLockPath(p)] = Client(p)]
               /\ pc' = [pc EXCEPT ![p] = "probe"]
               /\ UNCHANGED startErrs
          ELSE /\ RetriesUsed < MaxRetries
               /\ startErrs' = [startErrs EXCEPT ![p] = @ \cup {r}]
               /\ pc' = [pc EXCEPT ![p] = "except"]
               /\ UNCHANGED lockHolder
    /\ UNCHANGED <<args, flags, cwd, blocking, servers, ret, calls, infos, warnings,
                   probeResult, launchResult, heldThroughout>>

\* `except OSError:` of the outer try: `blocking = True`, LOG.info, and the
\* `while True` loop starts over.
ExceptOSError(p) ==
    /\ pc[p] = "except"
    /\ blocking' = [blocking EXCEPT ![p] = TRUE]
    /\ infos' = [infos EXCEPT ![p] = @ + 1]
    /\ pc' = [pc EXCEPT ![p] = "top"]
    /\ UNCHANGED <<args, flags, cwd, lockHolder, servers, ret, calls, warnings, startErrs,
                   probeResult, launchResult, heldThroughout>>

\* Mutant of ServerExists: the warning is logged but _run does not return.
ServerExistsNoReturn(p, r) ==
    /\ probeResult' = [probeResult EXCEPT ![p] = r]
    /\ warnings' = [warnings EXCEPT ![p] = @ + 1]
    /\ pc' = [pc EXCEPT ![p] = "flags"]
    /\ UNCHANGED <<ret, lockHolder>>

\* Mutant of ServerExists: the probe branch returns SUCCESS.
ServerExistsReturnSuccess(p, r) ==
    /\ probeResult' = [probeResult EXCEPT ![p] = r]
    /\ warnings' = [warnings EXCEPT ![p] = @ + 1]
    /\ ret' = [ret EXCEPT ![p] = "SUCCESS"]
    /\ lockHolder' = ExitClientLockScope(p)
    /\ pc' = [pc EXCEPT ![p] = "done"]

\* The inner `except OSError:` LOG.warning, `return FAILURE`; the return
\* leaves the scope of the client lock.
ServerExists(p, r) ==
    /\ probeResult' = [probeResult EXCEPT ![p] = r]
    /\ warnings' = [warnings EXCEPT ![p] = @ + 1]
    /\ ret' = [ret EXCEPT ![p] = "FAILURE"]
    /\ lockHolder' = ExitClientLockScope(p)
    /\ pc' = [pc EXCEPT ![p] = "done"]

\* The probe acquired the server lock: control is inside the inner `with`.
ServerLockAcquired(p, r) ==
    /\ probeResult' = [probeResult EXCEPT ![p] = r]
    /\ lockHolder' = [lockHolder EXCEPT ![ServerLockPath] = Client(p)]
    /\ pc' = [pc EXCEPT ![p] = "probed"]
    /\ UNCHANGED <<warnings, ret>>

\* `with filesystem.acquire_lock(<server lock>, blocking=False):` inside the
\* inner `try`.
ProbeServerLock(p) ==
    /\ pc[p] = "probe"
    /\ \E r \in AcquireResults(ServerLockPath, FALSE) :
          IF r = "Acquired" THEN ServerLockAcquired(p, r) ELSE ServerExists(p, r)
    /\ UNCHANGED <<args, flags, cwd, blocking, servers, calls, infos, startErrs,
                   launchResult, heldThroughout>>

\* `pass`: the inner `with` ends and releases the server lock.
ReleaseServerLock(p) ==
    /\ pc[p] = "probed"
    /\ lockHolder' = ExitServerLockScope(p)
    /\ pc' = [pc EXCEPT ![p] = "flags"]
    /\ UNCHANGED <<args, flags, cwd, blocking, servers, ret, calls, infos, warnings,
                   startErrs, probeResult, launchResult, heldThroughout>>

\* The flags of the request are assembled.
BuildFlags(p) ==
    /\ pc[p] = "flags"
    /\ \E f \in PossibleFlags(args) : flags' = [flags EXCEPT ![p] = f]
    /\ pc' = [pc EXCEPT ![p] = "call"]
    /\ UNCHANGED <<args, cwd, blocking, lockHolder, servers, ret, calls, infos,
                   warnings, startErrs, probeResult, launchResult, heldThroughout>>

\* The client started a server: the server is alive and holds the server
\* lock for its lifetime (when the lock is free for it to take).
SpawnServer(p, locks) ==
    IF locks[ServerLockPath] = NoHolder
    THEN [locks EXCEPT ![ServerLockPath] = Server(p)]
    ELSE locks

\* `self._call_client(command=self.NAME, flags=flags).check()` and what
\* follows it: `return SUCCESS`, an exception that propagates out of _run, or
\* an OSError that the outer handler catches.  Each leaves the scope of the
\* client lock.
CallClient(p) ==
    /\ pc[p] = "call"
    /\ calls' = [calls EXCEPT ![p] = @ + 1]
    /\ \E r \in LauncherResults :
          /\ launchResult' = [launchResult EXCEPT ![p] = r]
          /\ CASE r = "Ok" ->
                    /\ servers' = servers \cup {p}
                    /\ lockHolder' = SpawnServer(p, ExitClientLockScope(p))
                    /\ ret' = [ret EXCEPT ![p] = "SUCCESS"]
                    /\ pc' = [pc EXCEPT ![p] = "done"]
               [] r = "Failure" ->
                    /\ lockHolder' = ExitClientLockScope(p)
                    /\ ret' = [ret EXCEPT ![p] = "Raised"]
                    /\ pc' = [pc EXCEPT ![p] = "done"]
                    /\ UNCHANGED servers
               [] r = "OSError" ->
                    /\ RetriesUsed < MaxRetries
                    /\ lockHolder' = ExitClientLockScope(p)
                    /\ pc' = [pc EXCEPT ![p] = "except"]
                    /\ UNCHANGED <<servers, ret>>
    /\ UNCHANGED <<args, flags, cwd, blocking, infos, warnings, startErrs, probeResult,
                   heldThroughout>>

\* A server process exits; the operating system drops its lock.
ServerExit(s) ==
    /\ s \in servers
    /\ servers' = servers \ {s}
    /\ lockHolder' = IF lockHolder[ServerLockPath] = Server(s)
                     THEN [lockHolder EXCEPT ![ServerLockPath] = NoHolder]
                     ELSE lockHolder
    /\ heldThroughout' = IF lockHolder[ServerLockPath] = Server(s)
                         THEN [p \in Procs |-> heldThroughout[p] /\ pc[p] = "done"]
                         ELSE heldThroughout
    /\ UNCHANGED <<args, flags, cwd, pc, blocking, ret, calls, infos, warnings, startErrs,
                   probeResult, launchResult>>

Next ==
    \/ \E p \in Procs : Run(p)
    \/ \E p \in Procs : LoopTop(p)
    \/ \E p \in Procs : AcquireClientLock(p)
    \/ \E p \in Procs : ExceptOSError(p)
    \/ \E p \in Procs : ProbeServerLock(p)
    \/ \E p \in Procs : ReleaseServerLock(p)
    \/ \E p \in Procs : BuildFlags(p)
    \/ \E p \in Procs : CallClient(p)
    \/ \E s \in Procs \cup {OldServer} : ServerExit(s)

Spec == Init /\ [][Next]_vars

----------------------------------------------------------------------------
(* The same project, started from different working directories *)

\* Directories a process can be in when it runs `pyre start` for the project.
AnyWorkingDirs == {"/project", "/project/client"}

AnyLockPaths ==
    {<<d, ".pyre/client.lock">> : d \in AnyWorkingDirs} \cup {ServerLockPath}

\* As Init, with every process in any of the working directories.
InitCwd ==
    /\ cwd \in [Procs -> AnyWorkingDirs]
    /\ pc = [p \in Procs |-> "idle"]
    /\ blocking = [p \in Procs |-> FALSE]
    /\ \E old \in BOOLEAN :
          /\ servers = IF old THEN {OldServer} ELSE {}
          /\ lockHolder = [l \in AnyLockPaths |->
                IF old /\ l = ServerLockPath THEN Server(OldServer) ELSE NoHolder]
    /\ ret = [p \in Procs |-> "none"]
    /\ calls = [p \in Procs |-> 0]
    /\ infos = [p \in Procs |-> 0]
    /\ warnings = [p \in Procs |-> 0]
    /\ startErrs = [p \in Procs |-> {}]
    /\ probeResult = [p \in Procs |-> "none"]
    /\ launchResult = [p \in Procs |-> "none"]
    /\ heldThroughout = [p \in Procs |-> FALSE]
    /\ args = DefaultArgs
    /\ flags = [p \in Procs |-> <<>>]

SpecCwd == InitCwd /\ [][Next]_vars

----------------------------------------------------------------------------
(* Any arguments and configuration *)

\* As Init, with any inputs of the flags.
InitFlags ==
    /\ cwd \in [Procs -> WorkingDirs]
    /\ pc = [p \in Procs |-> "idle"]
    /\ blocking = [p \in Procs |-> FALSE]
    /\ \E old \in BOOLEAN :
          /\ servers = IF old THEN {OldServer} ELSE {}
          /\ lockHolder = [l \in LockPaths |->
                IF old /\ l = ServerLockPath THEN Server(OldServer) ELSE NoHolder]
    /\ ret = [p \in Procs |-> "none"]
    /\ calls = [p \in Procs |-> 0]
    /\ infos = [p \in Procs |-> 0]
    /\ warnings = [p \in Procs |-> 0]
    /\ startErrs = [p \in Procs |-> {}]
    /\ probeResult = [p \in Procs |-> "none"]
    /\ launchResult = [p \in Procs |-> "none"]
    /\ heldThroughout = [p \in Procs |-> FALSE]
    /\ args \in ArgsSet
    /\ flags = [p \in Procs |-> <<>>]

\* All processes run `pyre start` with the same inputs.
SpecFlagsRace == InitFlags /\ [][Next]_vars

\* A single process runs `pyre start`.
NextAlone ==
    \/ Run(1)
    \/ LoopTop(1)
    \/ AcquireClientLock(1)
    \/ ExceptOSError(1)
    \/ ProbeServerLock(1)
    \/ ReleaseServerLock(1)
    \/ BuildFlags(1)
    \/ CallClient(1)
    \/ \E s \in Procs \cup {OldServer} : ServerExit(s)

SpecFlags == InitFlags /\ [][NextAlone]_vars

----------------------------------------------------------------------------
(* Unbounded retries under fair scheduling *)

\* The counters of notices and launcher calls stop counting at these values.
Saturate(n, max) == IF n < max THEN n + 1 ELSE max

\* AcquireClientLock without the bound on the retries.
RetryingAcquireClientLock(p) ==
    /\ pc[p] = "acquire"
    /\ \E r \in AcquireResults(ClientLockPath(p), blocking[p]) :
          IF r = "Acquired"
          THEN /\ lockHolder' = [lockHolder EXCEPT ![ClientLockPath(p)] = Client(p)]
               /\ pc' = [pc EXCEPT ![p] = "probe"]
               /\ UNCHANGED startErrs
          ELSE /\ startErrs' = [startErrs EXCEPT ![p] = @ \cup {r}]
               /\ pc' = [pc EXCEPT ![p] = "except"]
               /\ UNCHANGED lockHolder
    /\ UNCHANGED <<args, flags, cwd, blocking, servers, ret, calls, infos, warnings,
                   probeResult, launchResult, heldThroughout>>

\* ExceptOSError with a counter of notices that saturates.
RetryingExceptOSError(p) ==
    /\ pc[p] = "except"
    /\ blocking' = [blocking EXCEPT ![p] = TRUE]
    /\ infos' = [infos EXCEPT ![p] = Saturate(@, MaxRetries)]
    /\ pc' = [pc EXCEPT ![p] = "top"]
    /\ UNCHANGED <<args, flags, cwd, lockHolder, servers, ret, calls, warnings, startErrs,
                   probeResult, launchResult, heldThroughout>>

\* CallClient without the bound on the retries, with a counter of calls that
\* saturates.
RetryingCallClient(p) ==
    /\ pc[p] = "call"
    /\ calls' = [calls EXCEPT ![p] = Saturate(@, MaxRetries + 1)]
    /\ \E r \in LauncherResults :
          /\ launchResult' = [launchResult EXCEPT ![p] = r]
          /\ CASE r = "Ok" ->
                    /\ servers' = servers \cup {p}
                    /\ lockHolder' = SpawnServer(p, ExitClientLockScope(p))
                    /\ ret' = [ret EXCEPT ![p] = "SUCCESS"]
                    /\ pc' = [pc EXCEPT ![p] = "done"]
               [] r = "Failure" ->
                    /\ lockHolder' = ExitClientLockScope(p)
                    /\ ret' = [ret EXCEPT ![p] = "Raised"]
                    /\ pc' = [pc EXCEPT ![p] = "done"]
                    /\ UNCHANGED servers
               [] r = "OSError" ->
                    /\ lockHolder' = ExitClientLockScope(p)
                    /\ pc' = [pc EXCEPT ![p] = "except"]
                    /\ UNCHANGED <<servers, ret>>
    /\ UNCHANGED <<args, flags, cwd, blocking, infos, warnings, startErrs, probeResult,
                   heldThroughout>>

\* One step of process p in _run.
RunStep(p) ==
    \/ Run(p)
    \/ LoopTop(p)
    \/ RetryingAcquireClientLock(p)
    \/ RetryingExceptOSError(p)
    \/ ProbeServerLock(p)
    \/ ReleaseServerLock(p)
    \/ BuildFlags(p)
    \/ RetryingCallClient(p)

NextRetrying ==
    \/ \E p \in Procs : RunStep(p)
    \/ \E s \in Procs \cup {OldServer} : ServerExit(s)

\* Every process that can take a step of _run eventually takes one: the
\* operating system schedules every runnable process.
FairSpec == Init /\ [][NextRetrying]_vars /\ \A p \in Procs : WF_vars(RunStep(p))

----------------------------------------------------------------------------
TypeOK ==
    /\ pc \in [Procs -> {"idle", "top", "acquire", "except", "probe", "probed",
                         "flags", "call", "done"}]
    /\ blocking \in [Procs -> BOOLEAN]
    /\ ret \in [Procs -> {"none", "SUCCESS", "FAILURE", "Raised"}]
    /\ servers \subseteq (Procs \cup {OldServer})

\* The outcome of a finished coordination attempt: `return SUCCESS` after the
\* launcher, `return FAILURE` from the probe branch, or the exception of
\* check() leaving _run.
Outcome(p) ==
    CASE ret[p] = "SUCCESS" -> "Started"
      [] ret[p] = "FAILURE" -> "AlreadyRunning"
      [] ret[p] = "Raised"  -> "LauncherFailure"
      [] OTHER              -> "none"

\* Process p is inside the scope of the client (start) lock: probing the
\* server lock, building flags or calling the launcher.
InStartLockScope(p) == pc[p] \in {"probe", "probed", "flags", "call"}

----------------------------------------------------------------------------
(* Claims *)

C3_LivenessDetection ==
    \A p \in Procs :
        heldThroughout[p] =>
            /\ calls[p] = 0
            /\ pc[p] = "done" => (Outcome(p) = "AlreadyRunning" /\ warnings[p] = 1)

\* An attempt ended while the server that was running when it began is still
\* running.
C3_Witness ==
    \E p \in Procs :
        /\ heldThroughout[p]
        /\ pc[p] = "done"
        /\ Outcome(p) = "AlreadyRunning"
        /\ OldServer \in servers

\* C4: in one attempt the launcher is invoked at most once, exactly once when
\* the outcome is Started, and only while the attempt holds the start lock.
C4_LauncherAtMostOnce ==
    \A p \in Procs :
        /\ calls[p] <= 1
        /\ Outcome(p) = "Started" => calls[p] = 1
        /\ pc[p] = "call" => lockHolder[ClientLockPath(p)] = Client(p)

\* C5: a process whose attempt has ended holds neither the start lock nor
\* the server lock.
C5_ReleaseOnEveryExit ==
    \A p \in Procs :
        pc[p] = "done" => \A l \in LockPaths : lockHolder[l] # Client(p)

\* One attempt ended by the launcher's exception and another one by the
\* early return of the probe branch.
C5_Witness ==
    \E p, q \in Procs :
        /\ pc[p] = "done" /\ ret[p] = "Raised"
        /\ pc[q] = "done" /\ ret[q] = "FAILURE"

\* C6: an attempt does not hold the server lock when it invokes the launcher
\* nor at any point after it has invoked the launcher.
C6_NoServerLockFromLaunchOn ==
    \A p \in Procs :
        (pc[p] = "call" \/ calls[p] > 0) => lockHolder[ServerLockPath] # Client(p)

\* C7: after a ResourceUnavailable failure of the start lock the attempt ends
\* with a fatal failure: control is in the raised exception or _run has ended
\* by it, so there is no retry, no informational notice and no launcher call.
C7_StartLockFailurePropagates ==
    \A p \in Procs :
        "ResourceUnavailable" \in startErrs[p] =>
            /\ pc[p] \in {"except", "done"}
            /\ pc[p] = "done" => ret[p] = "Raised"

\* C8: after the launcher failed or raised, the attempt ends with that
\* failure, the start lock released; it never returns Started and never goes
\* back to acquiring the start lock.
C8_LauncherFailurePropagates ==
    \A p \in Procs :
        launchResult[p] \in {"Failure", "OSError"} =>
            /\ pc[p] \in {"except", "done"}
            /\ lockHolder[ClientLockPath(p)] # Client(p)
            /\ pc[p] = "done" => Outcome(p) = "LauncherFailure"

\* C9: an attempt ends as AlreadyRunning only if its probe found the server
\* lock held by another process.
C9_AlreadyRunningOnlyOnContention ==
    \A p \in Procs :
        Outcome(p) = "AlreadyRunning" => probeResult[p] = "ResourceBusy"

\* C10: once the start lock failed with ResourceBusy, every later start-lock
\* acquisition of the attempt is made with blocking = true.
C10_EscalationToBlocking ==
    \A p \in Procs :
        (pc[p] = "acquire" /\ "ResourceBusy" \in startErrs[p]) => blocking[p]

\* C11: an attempt whose only failures were ResourceBusy on the start lock
\* (the launcher, if reached, did not raise OSError) has written exactly one
\* informational notice when it ends, and it ends as Started or
\* AlreadyRunning.
C11_RetryEscalation ==
    \A p \in Procs :
        (/\ pc[p] = "done"
         /\ startErrs[p] = {"ResourceBusy"}
         /\ calls[p] <= 1
         /\ launchResult[p] \in {"none", "Ok"}) =>
            /\ infos[p] = 1
            /\ Outcome(p) \in {"Started", "AlreadyRunning"}

\* C13 as stated: an attempt whose probe found the server lock busy logs
\* exactly one warning and returns a non-error status, which is not the way
\* a hard failure ends.
C13_AlreadyRunningNonError ==
    \A p \in Procs :
        (pc[p] = "done" /\ probeResult[p] = "ResourceBusy") =>
            /\ warnings[p] = 1
            /\ ret[p] = "SUCCESS"

\* C13 as amended: an attempt whose probe found the server lock busy logs
\* exactly one warning and returns FAILURE by an ordinary return: it neither
\* returns SUCCESS nor ends by an exception, as a launcher failure does.
C13_AlreadyRunningReturnsFailure ==
    \A p \in Procs :
        /\ (pc[p] = "done" /\ probeResult[p] = "ResourceBusy") =>
              (warnings[p] = 1 /\ ret[p] = "FAILURE")
        /\ (pc[p] = "done" /\ launchResult[p] = "Failure") => ret[p] = "Raised"
        /\ warnings[p] > 0 => (pc[p] = "done" /\ ret[p] = "FAILURE")

\* One attempt ended by the probe branch because a server held the server
\* lock, another one ended by a launcher failure.
C13_Witness ==
    \E p, q \in Procs :
        /\ pc[p] = "done" /\ probeResult[p] = "ResourceBusy" /\ warnings[p] = 1
        /\ pc[q] = "done" /\ ret[q] = "Raised"

\* In every state where p is past the probe and before the end of the
\* launcher call, p's latest probe acquired the server lock and p holds the
\* start lock.
C17_ProbedUnderLock ==
    \A p \in Procs :
        pc[p] \in {"flags", "call"} =>
            /\ probeResult[p] = "Acquired"
            /\ lockHolder[ClientLockPath(p)] = Client(p)

\* The launcher is invoked only from the call position, which is entered only
\* from flag building, which is entered only from a probe that found the
\* server lock free and acquired it; the start lock stays with p all along.
C17_ProbeThenLaunchStep ==
    \A p \in Procs :
        /\ calls'[p] # calls[p] => pc[p] = "call"
        /\ (pc'[p] = "call" /\ pc[p] # "call") => pc[p] = "flags"
        /\ (pc'[p] = "flags" /\ pc[p] # "flags") => pc[p] = "probed"
        /\ (pc'[p] = "probed" /\ pc[p] # "probed") =>
              /\ pc[p] = "probe"
              /\ lockHolder[ServerLockPath] = NoHolder
              /\ probeResult'[p] = "Acquired"
        /\ (pc[p] \in {"probe", "probed", "flags"}
              /\ pc'[p] \in {"probed", "flags", "call"}) =>
              /\ lockHolder[ClientLockPath(p)] = Client(p)
              /\ lockHolder'[ClientLockPath(p)] = Client(p)

\* C17: every launcher invocation is preceded, within the same uninterrupted
\* hold of the start lock, by a server-lock probe that succeeded.
C17_LaunchOnlyAfterProbe ==
    []C17_ProbedUnderLock /\ [][C17_ProbeThenLaunchStep]_vars

\* An attempt is about to invoke the launcher for the second time, after a
\* second probe under a second hold of the start lock.
C17_Witness ==
    \E p \in Procs :
        /\ pc[p] = "call"
        /\ calls[p] = 1
        /\ probeResult[p] = "Acquired"
        /\ lockHolder[ClientLockPath(p)] = Client(p)

\* Process p waits for the start lock: it is at the acquisition and another
\* process holds the lock.
WaitsForClientLock(p) ==
    pc[p] = "acquire" /\ lockHolder[ClientLockPath(p)] # NoHolder

\* Process p has entered _run and has not ended.
Unfinished(p) == pc[p] \notin {"idle", "done"}

\* C18: the server lock is held by an attempt only together with the start
\* lock, an attempt at the start-lock acquisition holds no lock, the holder
\* of the start lock is inside its scope, and in no state do all unfinished
\* attempts wait for a lock.
C18_NoDeadlock ==
    /\ \A p \in Procs :
          /\ lockHolder[ServerLockPath] = Client(p) =>
                lockHolder[ClientLockPath(p)] = Client(p)
          /\ pc[p] = "acquire" => \A l \in LockPaths : lockHolder[l] # Client(p)
          /\ lockHolder[ClientLockPath(p)] = Client(p) => InStartLockScope(p)
    /\ (\E p \in Procs : Unfinished(p)) =>
          \E q \in Procs : Unfinished(q) /\ ~WaitsForClientLock(q)

\* A server holds the server lock, one attempt probes it under the start
\* lock and the other attempt waits for the start lock.
C18_Witness ==
    /\ ServerHoldsLock
    /\ \E p, q \in Procs :
          /\ pc[p] = "probe"
          /\ WaitsForClientLock(q)
          /\ "ResourceBusy" \in startErrs[q]

\* C14: attempts for the same project use the same lock files whatever their
\* working directories: the start lock one attempt holds is the lock every
\* other attempt contends on.
C14_LocksOfTheProject ==
    \A p, q \in Procs :
        lockHolder[ClientLockPath(p)] = Client(p) =>
            lockHolder[ClientLockPath(q)] = Client(p)

\* C12: under fair scheduling, with a start lock that every holder releases
\* and a launcher that always comes back, every coordination attempt whose
\* start-lock acquisitions fail by contention only eventually ends with an
\* outcome.
C12_Termination ==
    \A p \in Procs :
        <>(pc[p] = "done" \/ "ResourceUnavailable" \in startErrs[p])

\* The request of process p has been assembled: p is at the launcher call or
\* past it.
RequestBuilt(p) == flags[p] # <<>> /\ pc[p] \in {"call", "except", "done"}

\* The flag `name` is among the flags f, and the element that follows it.
HasFlag(f, name) == \E i \in 1 .. Len(f) : f[i] = name
FlagValue(f, name) == f[(CHOOSE i \in 1 .. Len(f) : f[i] = name) + 1]

\* C15: the request contains -filter-directories exactly when there is more
\* than one directory to analyze and the project root is one of them; its
\* value lists exactly those directories; and two requests for the same
\* directories carry the same value.
C15_FilterDirectories ==
    \A p \in Procs :
        RequestBuilt(p) =>
            /\ HasFlag(flags[p], "-filter-directories") <=>
                  (Cardinality(args.directories) > 1
                      /\ SourceDirectory \in args.directories)
            /\ HasFlag(flags[p], "-filter-directories") =>
                  /\ FlagValue(flags[p], "-filter-directories") \in
                        {Join(o) : o \in Orderings(args.directories)}
                  /\ \A q \in Procs :
                        RequestBuilt(q) =>
                            FlagValue(flags[q], "-filter-directories") =
                            FlagValue(flags[p], "-filter-directories")

\* The value "x,y" etc. that the configured search path must produce.
ExpectedSearchPath(sp) ==
    CASE sp = <<"x">>      -> "x"
      [] sp = <<"x", "y">> -> "x,y"
      [] sp = <<"y", "x">> -> "y,x"
      [] OTHER             -> ""

\* C16: the request contains the watchman flag iff watchman was not disabled,
\* the terminal flag iff terminal mode was requested, the search-path flag
\* iff the search path is non-empty, with the entries joined by commas in
\* configured order; workers, typeshed and expected-binary-version are in
\* every request, each followed by its value.
C16_OptionalFlags ==
    \A p \in Procs :
        RequestBuilt(p) =>
            /\ HasFlag(flags[p], "-use-watchman") <=> ~args.no_watchman
            /\ HasFlag(flags[p], "-terminal") <=> args.terminal
            /\ HasFlag(flags[p], "-search-path") <=> args.search_path # <<>>
            /\ HasFlag(flags[p], "-search-path") =>
                  FlagValue(flags[p], "-search-path") =
                      ExpectedSearchPath(args.search_path)
            /\ HasFlag(flags[p], "-workers")
            /\ FlagValue(flags[p], "-workers") = "4"
            /\ HasFlag(flags[p], "-typeshed")
            /\ FlagValue(flags[p], "-typeshed") = Typeshed
            /\ HasFlag(flags[p], "-expected-binary-version")
            /\ FlagValue(flags[p], "-expected-binary-version") = VersionHash

\* A request was handed to the launcher with watchman disabled, terminal mode
\* requested and a search path of two entries.
C16_Witness ==
    \E p \in Procs :
        /\ pc[p] = "done" /\ ret[p] = "SUCCESS"
        /\ args.no_watchman /\ args.terminal
        /\ args.search_path = <<"x", "y">>
        /\ FlagValue(flags[p], "-search-path") = "x,y"
        /\ ~HasFlag(flags[p], "-use-watchman")

====
